---- MODULE Spec2Model ----
(***************************************************************************)
(* Model of the urlshort package: MapHandler, YamlHandler, JsonHandler,    *)
(* DbHandler, RedirectsToMap, the two decoders and the record store.       *)
(*                                                                         *)
(* Strings are sequences of one-character strings over Char.  A URL may    *)
(* start with the single token Origin, which stands for a scheme and an    *)
(* authority ("http://h"); everything after it is the path reference.      *)
(***************************************************************************)
EXTENDS Integers, Sequences, FiniteSets, TLC

\* ------------------------------------------------------------------ bounds
MaxLen == 2
MaxRecs == 2
MaxItems == 2

\* ----------------------------------------------------------------- strings
Char == {"/", "a", "."}
Origin == "http://h"

StrUpTo(n) == UNION {[1..k -> Char] : k \in 0..n}
Str == StrUpTo(MaxLen)
\* destinations: a path reference, or an absolute URL (Origin, then a reference)
Dest == Str \cup {<<Origin>> \o s : s \in StrUpTo(1)}

HasSuffixSlash(s) == Len(s) > 0 /\ s[Len(s)] = "/"

\* index of the last "/" in s, 0 when there is none
LastSlash(s) == IF \E i \in 1..Len(s) : s[i] = "/"
                THEN CHOOSE i \in 1..Len(s) : s[i] = "/" /\ \A j \in (i+1)..Len(s) : s[j] # "/"
                ELSE 0

\* path.Split(p): the directory part, up to and including the last slash
SplitDir(p) == SubSeq(p, 1, LastSlash(p))

\* the elements of s between slashes, in order (strings.Split(s, "/"))
RECURSIVE Segments(_)
Segments(s) ==
    IF \A i \in 1..Len(s) : s[i] # "/"
    THEN <<s>>
    ELSE LET i == CHOOSE k \in 1..Len(s) : s[k] = "/" /\ \A j \in 1..(k-1) : s[j] # "/"
         IN  <<SubSeq(s, 1, i-1)>> \o Segments(SubSeq(s, i+1, Len(s)))

RECURSIVE JoinSlash(_)
JoinSlash(segs) ==
    IF Len(segs) = 0 THEN <<>>
    ELSE IF Len(segs) = 1 THEN segs[1]
    ELSE segs[1] \o <<"/">> \o JoinSlash(Tail(segs))

Dot == <<".">>
DotDot == <<".", ".">>

\* the element stack path.Clean keeps while scanning: "" and "." are dropped,
\* ".." pops a real element, is dropped at the root, is kept when unrooted
RECURSIVE CleanStack(_, _, _)
CleanStack(segs, out, rooted) ==
    IF Len(segs) = 0 THEN out
    ELSE LET e == Head(segs)
             rest == Tail(segs)
         IN  IF e = <<>> \/ e = Dot THEN CleanStack(rest, out, rooted)
             ELSE IF e = DotDot
                  THEN IF Len(out) > 0 /\ out[Len(out)] # DotDot
                       THEN CleanStack(rest, SubSeq(out, 1, Len(out) - 1), rooted)
                       ELSE IF rooted THEN CleanStack(rest, out, rooted)
                            ELSE CleanStack(rest, Append(out, e), rooted)
                  ELSE CleanStack(rest, Append(out, e), rooted)

\* path.Clean
Clean(p) ==
    IF Len(p) = 0 THEN Dot
    ELSE LET rooted == p[1] = "/"
             out == CleanStack(Segments(p), <<>>, rooted)
         IN  IF rooted THEN <<"/">> \o JoinSlash(out)
             ELSE IF Len(out) = 0 THEN Dot ELSE JoinSlash(out)

\* url.Parse(url): does the URL carry a scheme or a host
HasScheme(url) == Len(url) > 0 /\ url[1] = Origin
HasHost(url) ==
    \/ HasScheme(url)
    \/ Len(url) >= 3 /\ url[1] = "/" /\ url[2] = "/" /\ url[3] # "/"

\* the Location http.Redirect sets for target url on a request for oldpath
RedirectLocation(oldpath, url) ==
    IF HasHost(url) THEN url
    ELSE LET old == IF Len(oldpath) = 0 THEN <<"/">> ELSE oldpath
             abs == IF Len(url) = 0 \/ url[1] # "/" THEN SplitDir(old) \o url ELSE url
             cl  == Clean(abs)
         IN  IF HasSuffixSlash(abs) /\ ~HasSuffixSlash(cl) THEN cl \o <<"/">> ELSE cl

\* HTTP status texts used by the handlers
StatusText(code) == IF code = 302 THEN "Found"
                    ELSE IF code = 301 THEN "Moved Permanently"
                    ELSE IF code = 404 THEN "Not Found" ELSE "OK"

\* ---------------------------------------------------------------- requests
\* the tests, and a browser following a short link, issue GET
Methods == {"GET"}
Requests == [method : Methods, path : Str]
NoRequest == [method |-> "", path |-> <<>>]

NoResponse == [status |-> 0, headers |-> {}, body |-> <<>>, fallbackReqs |-> <<>>]

\* http.Redirect(w, r, url, code) on a fresh response writer
HttpRedirect(r, url, code) ==
    LET loc == RedirectLocation(r.path, url)
    IN  [status  |-> code,
         headers |-> {<<"Location", loc>>} \cup
                     (IF r.method = "GET" THEN {<<"Content-Type", <<"text/html; charset=utf-8">>>>} ELSE {}),
         body    |-> IF r.method = "GET"
                     THEN <<"<a href=\"">> \o loc \o <<"\">", StatusText(code), "</a>.\n\n">>
                     ELSE <<>>,
         fallbackReqs |-> <<>>]

\* ---------------------------------------------------------------- fallback
\* the fallbacks the repository builds: defaultMux (pattern "/" -> hello) and
\* the tests' mux (one exact pattern, FallbackPath)
Fallbacks == {"defaultMux", "testMux"}
FallbackPath == <<"/", "a">>

\* ServeMux's cleanPath
MuxCleanPath(p) ==
    IF Len(p) = 0 THEN <<"/">>
    ELSE LET q  == IF p[1] # "/" THEN <<"/">> \o p ELSE p
             np == Clean(q)
         IN  IF HasSuffixSlash(q) /\ np # <<"/">> THEN np \o <<"/">> ELSE np

\* the map the caller built and handed to MapHandler (Task1's pathsToUrls)
VARIABLE callerMap

RECURSIVE MapHandlerServe(_, _, _)

\* what the fallback f alone answers to request r; "mapHandler" is Task1's
\* MapHandler(pathsToUrls, mux), used as the fallback of the YAML handler
FallbackServe(f, r) ==
    IF f = "mapHandler"
    THEN [MapHandlerServe(callerMap, "defaultMux", r) EXCEPT !.fallbackReqs = <<>>]
    ELSE IF f = "testMux" /\ r.path = FallbackPath
    THEN [status |-> 200, headers |-> {}, body |-> <<"Hello, world">>, fallbackReqs |-> <<>>]
    ELSE IF MuxCleanPath(r.path) # r.path
    THEN HttpRedirect(r, MuxCleanPath(r.path), 301)
    ELSE IF f = "defaultMux"
    THEN [status |-> 200, headers |-> {}, body |-> <<"Hello, world!\n">>, fallbackReqs |-> <<>>]
    ELSE [status |-> 404, headers |-> {}, body |-> <<"404 page not found\n">>, fallbackReqs |-> <<>>]

\* ------------------------------------------------------------- MapHandler
\* url, ok := pathsToUrls[path]
LookupPrefix(pathsToUrls, path) ==
    LET ks == {k \in DOMAIN pathsToUrls :
                  Len(path) <= Len(k) /\ SubSeq(k, 1, Len(path)) = path}
    IN  IF ks # {} THEN [ok |-> TRUE, url |-> pathsToUrls[CHOOSE k \in ks : TRUE]]
        ELSE [ok |-> FALSE, url |-> <<>>]
Lookup(pathsToUrls, path) ==
    IF path \in DOMAIN pathsToUrls THEN [ok |-> TRUE, url |-> pathsToUrls[path]]
    ELSE [ok |-> FALSE, url |-> <<>>]

\* the closure MapHandler returns, applied to request r
MapHandlerServeAlsoFallback(pathsToUrls, fallback, r) ==
    LET found == Lookup(pathsToUrls, r.path)
    IN  IF found.ok
        THEN [HttpRedirect(r, found.url, 302) EXCEPT !.fallbackReqs = <<r>>]
        ELSE [FallbackServe(fallback, r) EXCEPT !.fallbackReqs = <<r>>]
MapHandlerServeCleansPath(pathsToUrls, fallback, r) ==
    LET found == Lookup(pathsToUrls, r.path)
        c == [r EXCEPT !.path = MuxCleanPath(r.path)]
    IN  IF found.ok
        THEN HttpRedirect(r, found.url, 302)
        ELSE [FallbackServe(fallback, c) EXCEPT !.fallbackReqs = <<c>>]
MapHandlerServeInnerFirst(pathsToUrls, fallback, r) ==
    LET found == Lookup(pathsToUrls, r.path)
        inner == FallbackServe(fallback, r)
    IN  IF inner.status = 302 \/ ~found.ok
        THEN [inner EXCEPT !.fallbackReqs = <<r>>]
        ELSE HttpRedirect(r, found.url, 302)
MapHandlerServe(pathsToUrls, fallback, r) ==
    LET found == Lookup(pathsToUrls, r.path)
    IN  IF found.ok
        THEN HttpRedirect(r, found.url, 302)
        ELSE [FallbackServe(fallback, r) EXCEPT !.fallbackReqs = <<r>>]

\* ----------------------------------------------------------------- records
Redirect(p, u) == [Path |-> p, URL |-> u]
\* the records the lists, texts and store contents are made of: a path with
\* two different URLs, a relative URL, an absolute URL
RecPool == { Redirect(<<"/">>, <<"/", "a">>), Redirect(<<"/">>, <<"a">>),
             Redirect(<<"/", "a">>, <<"/", "a">>), Redirect(<<"/", "a">>, <<Origin, "/">>) }

SeqUpTo(S, n) == UNION {[1..k -> S] : k \in 0..n}
RecLists == SeqUpTo(RecPool, MaxRecs)

EmptyMap == <<>>
Put(m, k, v) == [x \in (DOMAIN m) \cup {k} |-> IF x = k THEN v ELSE m[x]]

\* RedirectsToMap: fold the records left to right into a map
RECURSIVE RedirectsToMapFirstWins(_)
RedirectsToMapFirstWins(redirects) ==
    IF Len(redirects) = 0 THEN EmptyMap
    ELSE LET m == RedirectsToMapFirstWins(Tail(redirects))
         IN  Put(m, Head(redirects).Path, Head(redirects).URL)
RECURSIVE RedirectsToMapDropsDuplicates(_)
RedirectsToMapDropsDuplicates(redirects) ==
    IF Len(redirects) = 0 THEN EmptyMap
    ELSE LET n == Len(redirects)
             m == RedirectsToMapDropsDuplicates(SubSeq(redirects, 1, n - 1))
         IN  IF redirects[n].Path \in DOMAIN m
             THEN [x \in (DOMAIN m) \ {redirects[n].Path} |-> m[x]]
             ELSE Put(m, redirects[n].Path, redirects[n].URL)
RECURSIVE RedirectsToMap(_)
RedirectsToMap(redirects) ==
    IF Len(redirects) = 0 THEN EmptyMap
    ELSE LET n == Len(redirects)
             m == RedirectsToMap(SubSeq(redirects, 1, n - 1))
         IN  Put(m, redirects[n].Path, redirects[n].URL)

\* ---------------------------------------------------------------- decoders
\* The text handed to a decoder is modelled by the node tree its parser
\* yields: syntax (FALSE: the parser rejects the bytes), the top-level node
\* (a sequence, a mapping, or nothing at all) and the sequence's items.  An
\* item is a mapping of fields or a bare scalar; a field's value is a string
\* scalar, a number scalar, null, or a nested block.
Field(k, t, v) == [key |-> k, type |-> t, val |-> v]
MapItem(fs) == [node |-> "map", fields |-> fs]
ScalarItem == [node |-> "scalar", fields |-> <<>>]

GoodItem(rec) == MapItem(<<Field("path", "str", rec.Path), Field("url", "str", rec.URL)>>)
ItemPool ==
    {GoodItem(rec) : rec \in RecPool} \cup
    { MapItem(<<Field("path", "str", <<"/">>), Field("url", "num", <<"a">>)>>),
      MapItem(<<Field("path", "str", <<"/">>), Field("url", "nested", <<>>)>>),
      MapItem(<<Field("Path", "str", <<"/">>), Field("url", "str", <<"a">>)>>),
      MapItem(<<Field("path", "str", <<"/">>), Field("path", "str", <<"/", "a">>),
                Field("url", "null", <<>>)>>),
      ScalarItem }

Doc(ok, top, items) == [syntax |-> ok, top |-> top, items |-> items]
NoDoc == Doc(TRUE, "empty", <<>>)
Docs == {Doc(TRUE, "seq", items) : items \in SeqUpTo(ItemPool, MaxItems)} \cup
        {Doc(FALSE, "seq", <<>>), Doc(TRUE, "map", <<>>), NoDoc}

NoError == "nil"
Decoded(e, rs) == [err |-> e, recs |-> rs]
FirstError(e1, e2) == IF e1 # NoError THEN e1 ELSE e2

ZeroRedirect == Redirect(<<>>, <<>>)

\* the struct field a key of the text selects: yaml.v2 matches the tag exactly,
\* encoding/json also accepts a key that differs only in case
YamlFieldOf(k) == IF k \in {"path", "url"} THEN k ELSE "none"
JsonFieldOf(k) == IF k \in {"path", "Path"} THEN "path" ELSE IF k = "url" THEN "url" ELSE "none"

SetField(rec, name, v) ==
    IF name = "path" THEN [rec EXCEPT !.Path = v]
    ELSE IF name = "url" THEN [rec EXCEPT !.URL = v]
    ELSE rec

\* yaml.v2: one mapping node decoded into a Redirect, field by field
RECURSIVE YamlStruct(_, _)
YamlStruct(fields, acc) ==
    IF Len(fields) = 0 THEN acc
    ELSE LET f == Head(fields)
             name == YamlFieldOf(f.key)
         IN  IF name = "none" THEN YamlStruct(Tail(fields), acc)
             ELSE IF f.type = "nested"
                  THEN YamlStruct(Tail(fields),
                           Decoded(FirstError(acc.err, "yaml: unmarshal errors"), acc.recs))
             ELSE IF f.type = "null"
                  THEN YamlStruct(Tail(fields), Decoded(acc.err, SetField(acc.recs, name, <<>>)))
             ELSE YamlStruct(Tail(fields), Decoded(acc.err, SetField(acc.recs, name, f.val)))

\* yaml.v2: the items of the top-level sequence, an item that fails is left out
RECURSIVE YamlSequence(_, _)
YamlSequence(items, acc) ==
    IF Len(items) = 0 THEN acc
    ELSE LET it == Head(items)
         IN  IF it.node = "scalar"
             THEN YamlSequence(Tail(items),
                      Decoded(FirstError(acc.err, "yaml: unmarshal errors"), acc.recs))
             ELSE LET one == YamlStruct(it.fields, Decoded(NoError, ZeroRedirect))
                  IN  YamlSequence(Tail(items),
                          Decoded(FirstError(acc.err, one.err), Append(acc.recs, one.recs)))

\* ParseYaml: yaml.Unmarshal(yml, &redirects); recs is what redirects holds afterwards
ParseYamlReversed(yml) ==
    LET d == YamlSequence(yml.items, Decoded(NoError, <<>>))
    IN  Decoded(d.err, [i \in 1..Len(d.recs) |-> d.recs[Len(d.recs) + 1 - i]])
ParseYaml(yml) ==
    IF ~yml.syntax THEN Decoded("yaml: syntax error", <<>>)
    ELSE IF yml.top = "empty" THEN Decoded(NoError, <<>>)
    ELSE IF yml.top = "map" THEN Decoded("yaml: unmarshal errors", <<>>)
    ELSE YamlSequence(yml.items, Decoded(NoError, <<>>))

\* encoding/json: one object decoded into a Redirect, field by field
RECURSIVE JsonStruct(_, _)
JsonStruct(fields, acc) ==
    IF Len(fields) = 0 THEN acc
    ELSE LET f == Head(fields)
             name == JsonFieldOf(f.key)
         IN  IF name = "none" \/ f.type = "null" THEN JsonStruct(Tail(fields), acc)
             ELSE IF f.type \in {"nested", "num"}
                  THEN JsonStruct(Tail(fields),
                           Decoded(FirstError(acc.err, "json: cannot unmarshal"), acc.recs))
             ELSE JsonStruct(Tail(fields), Decoded(acc.err, SetField(acc.recs, name, f.val)))

\* encoding/json: the elements of the top-level array, an element that fails stays zero
RECURSIVE JsonArray(_, _)
JsonArray(items, acc) ==
    IF Len(items) = 0 THEN acc
    ELSE LET it == Head(items)
         IN  IF it.node = "scalar"
             THEN JsonArray(Tail(items),
                      Decoded(FirstError(acc.err, "json: cannot unmarshal"),
                              Append(acc.recs, ZeroRedirect)))
             ELSE LET one == JsonStruct(it.fields, Decoded(NoError, ZeroRedirect))
                  IN  JsonArray(Tail(items),
                          Decoded(FirstError(acc.err, one.err), Append(acc.recs, one.recs)))

\* ParseJson: json.Unmarshal(jsn, &redirects); recs is what redirects holds afterwards
ParseJson(jsn) ==
    IF ~jsn.syntax \/ jsn.top = "empty" THEN Decoded("json: syntax error", <<>>)
    ELSE IF jsn.top = "map" THEN Decoded("json: cannot unmarshal", <<>>)
    ELSE JsonArray(jsn.items, Decoded(NoError, <<>>))

\* ---------------------------------------------------------- handler values
\* an http.HandlerFunc returned by a factory: nil, or the MapHandler closure
\* over the map held in pathsToUrls and the fallback
NilHandler == [nil |-> TRUE, fallback |-> ""]
Closure(f) == [nil |-> FALSE, fallback |-> f]
Built(h, e, m, rs) == [handler |-> h, err |-> e, pathsToUrls |-> m, redirects |-> rs]

\* MapHandler(pathsToUrls, fallback)
MapHandler(m, fallback) == Built(Closure(fallback), NoError, m, <<>>)

\* YamlHandler(yml, fallback)
YamlHandlerIgnoresError(yml, fallback) ==
    LET d == ParseYaml(yml)
    IN  Built(Closure(fallback), d.err, RedirectsToMap(d.recs), d.recs)
YamlHandler(yml, fallback) ==
    LET d == ParseYaml(yml)
    IN  IF d.err # NoError THEN Built(NilHandler, d.err, EmptyMap, d.recs)
        ELSE Built(Closure(fallback), NoError, RedirectsToMap(d.recs), d.recs)

\* JsonHandler(json, fallback)
JsonHandler(jsn, fallback) ==
    LET d == ParseJson(jsn)
    IN  IF d.err # NoError THEN Built(NilHandler, d.err, EmptyMap, d.recs)
        ELSE Built(Closure(fallback), NoError, RedirectsToMap(d.recs), d.recs)

\* RedirectoryDatabase.Find(ctx, &redirects, bson.M{}): the whole collection,
\* or the error of the query (store down) or of cursor.All (allOk = FALSE)
Find(coll, up, allOk) ==
    IF ~up THEN Decoded("store: find failed", <<>>)
    ELSE IF ~allOk THEN Decoded("store: cursor failed", <<>>)
    ELSE Decoded(NoError, coll)

\* what DbHandler returns, and the number of Find calls it issued
DbBuilt(b, n) == [handler |-> b.handler, err |-> b.err, pathsToUrls |-> b.pathsToUrls,
                  redirects |-> b.redirects, finds |-> n]

\* DbHandler(ctx, r, fallback)
DbHandlerRetries(coll, up, allOk, fallback) ==
    LET d1 == Find(coll, up, allOk)
        d  == IF d1.err # NoError THEN Find(coll, up, TRUE) ELSE d1
        n  == IF d1.err # NoError THEN 2 ELSE 1
    IN  IF d.err # NoError THEN DbBuilt(Built(NilHandler, d.err, EmptyMap, d.recs), n)
        ELSE DbBuilt(Built(Closure(fallback), NoError, RedirectsToMap(d.recs), d.recs), n)
DbHandler(coll, up, allOk, fallback) ==
    LET d == Find(coll, up, allOk)
    IN  IF d.err # NoError THEN DbBuilt(Built(NilHandler, d.err, EmptyMap, d.recs), 1)
        ELSE DbBuilt(Built(Closure(fallback), NoError, RedirectsToMap(d.recs), d.recs), 1)

\* the maps a caller hands to MapHandler: every map some record list folds
\* to (with either fallback, as in the tests), and every one-entry map over
\* all strings (with defaultMux, as in main)
ListMaps == {RedirectsToMap(l) : l \in RecLists}
EntryMaps == {Put(EmptyMap, p, d) : p \in Str, d \in Dest}
\* the map object the closure reads: the caller's own map, not a copy of it
HeldMapSnapshot(callers, held) == held
HeldMap(callers, held) == callers

\* the texts Task1 is run with: lists of well-formed items, or a rejected text
ChainDocs == {Doc(TRUE, "seq", items) :
                 items \in SeqUpTo({GoodItem(rec) : rec \in RecPool}, MaxItems)}
             \cup {Doc(FALSE, "seq", <<>>)}

MapCalls == (ListMaps \X Fallbacks) \cup (EntryMaps \X {"defaultMux"})

\* ------------------------------------------------------------------- state
Tasks == {"map", "yaml", "json", "db", "chain"}

VARIABLES
    task,         \* which task main runs
    raw,          \* the text given to YamlHandler / JsonHandler
    handler,      \* the handler the factory returned
    err,          \* the error the factory returned
    pathsToUrls,  \* the map the returned closure holds
    store,        \* the "redirect" collection of the record store
    storeUp,      \* the store answers queries
    queries,      \* Find calls issued so far
    req,          \* the last request served
    resp          \* the response to it

vars == <<task, raw, handler, err, pathsToUrls, callerMap, store, storeUp, queries, req, resp>>

Init ==
    /\ task \in Tasks
    /\ raw = NoDoc
    /\ handler = NilHandler
    /\ err = "unset"
    /\ pathsToUrls = EmptyMap
    /\ callerMap = EmptyMap
    /\ store = <<>>
    /\ storeUp = TRUE
    /\ queries = 0
    /\ req = NoRequest
    /\ resp = NoResponse

Install(b) ==
    /\ handler' = b.handler
    /\ err' = b.err
    /\ pathsToUrls' = b.pathsToUrls
    /\ UNCHANGED <<task, store, storeUp, req, resp>>

\* Task5 / the tests: MapHandler over a caller's map
CallMapHandler ==
    /\ task = "map" /\ err = "unset"
    /\ \E c \in MapCalls :
          /\ callerMap' = c[1]
          /\ Install(MapHandler(c[1], c[2]))
    /\ UNCHANGED <<raw, queries>>

\* Task1, Task2: YamlHandler over the text
CallYamlHandler ==
    /\ task = "yaml" /\ err = "unset"
    /\ \E yml \in Docs, f \in Fallbacks :
          /\ raw' = yml
          /\ Install(YamlHandler(yml, f))
    /\ UNCHANGED <<callerMap, queries>>

\* Task3: JsonHandler over the text
CallJsonHandler ==
    /\ task = "json" /\ err = "unset"
    /\ \E jsn \in Docs, f \in Fallbacks :
          /\ raw' = jsn
          /\ Install(JsonHandler(jsn, f))
    /\ UNCHANGED <<callerMap, queries>>

\* Task1: MapHandler over the caller's map and the mux, then YamlHandler over
\* the text with that handler as its fallback
CallChain ==
    /\ task = "chain" /\ err = "unset"
    /\ \E m \in ListMaps, yml \in ChainDocs :
          /\ callerMap' = m
          /\ raw' = yml
          /\ Install(YamlHandler(yml, "mapHandler"))
    /\ UNCHANGED queries

\* Task4: DbHandler over the store, defaultMux as the fallback
CallDbHandler ==
    /\ task = "db" /\ err = "unset"
    /\ \E allOk \in BOOLEAN :
          LET b == DbHandler(store, storeUp, allOk, "defaultMux")
          IN  Install(b) /\ queries' = queries + b.finds
    /\ UNCHANGED <<raw, callerMap>>

\* one request is handed to the handler, with a fresh response writer
ServeHTTPEvicts(r) ==
    /\ ~handler.nil
    /\ req = NoRequest
    /\ req' = r
    /\ resp' = MapHandlerServe(pathsToUrls, handler.fallback, r)
    /\ pathsToUrls' = [x \in (DOMAIN pathsToUrls) \ {r.path} |-> pathsToUrls[x]]
    /\ UNCHANGED <<task, raw, handler, err, callerMap, store, storeUp, queries>>
ServeHTTP(r) ==
    /\ ~handler.nil
    /\ req = NoRequest
    /\ req' = r
    /\ resp' = MapHandlerServe(pathsToUrls, handler.fallback, r)
    /\ UNCHANGED <<task, raw, handler, err, pathsToUrls, callerMap, store, storeUp, queries>>

Serve == \E r \in Requests : ServeHTTP(r)

\* the response has been read and its writer is dropped
FinishRequest ==
    /\ req # NoRequest
    /\ req' = NoRequest
    /\ resp' = NoResponse
    /\ UNCHANGED <<task, raw, handler, err, pathsToUrls, callerMap, store, storeUp, queries>>

\* the caller writes its map after MapHandler has returned, between requests:
\* an entry is set or a key is deleted
CallerWrites ==
    /\ task = "map" /\ err # "unset" /\ req = NoRequest
    /\ DOMAIN callerMap \subseteq {rec.Path : rec \in RecPool}
    /\ \E m \in {Put(callerMap, rec.Path, rec.URL) : rec \in RecPool} \cup
                 {[x \in (DOMAIN callerMap) \ {k} |-> callerMap[x]] : k \in DOMAIN callerMap} :
          /\ m # callerMap
          /\ callerMap' = m
          /\ pathsToUrls' = HeldMap(m, pathsToUrls)
    /\ UNCHANGED <<task, raw, handler, err, store, storeUp, queries, req, resp>>

\* RedirectoryDatabase.InsertMany: the records are appended to the collection
InsertMany ==
    /\ task = "db" /\ storeUp
    /\ \E items \in RecLists :
          /\ Len(items) > 0
          /\ Len(store) + Len(items) <= MaxRecs
          /\ store' = store \o items
    /\ UNCHANGED <<task, raw, handler, err, pathsToUrls, callerMap, storeUp, queries, req, resp>>

\* the collection is reset (Drop), by Task4 or by an administrator
DropCollection ==
    /\ task = "db" /\ storeUp /\ store # <<>>
    /\ store' = <<>>
    /\ UNCHANGED <<task, raw, handler, err, pathsToUrls, callerMap, storeUp, queries, req, resp>>

\* the store goes down or comes back
StoreOutage ==
    /\ task = "db"
    /\ storeUp' = ~storeUp
    /\ UNCHANGED <<task, raw, handler, err, pathsToUrls, callerMap, store, queries, req, resp>>

Next ==
    \/ CallMapHandler
    \/ CallYamlHandler
    \/ CallJsonHandler
    \/ CallDbHandler
    \/ CallChain
    \/ CallerWrites
    \/ Serve
    \/ FinishRequest
    \/ InsertMany
    \/ DropCollection
    \/ StoreOutage

Spec == Init /\ [][Next]_vars

\* ================================================================== claims
Served == req # NoRequest
Hit == Served /\ req.path \in DOMAIN pathsToUrls
Miss == Served /\ req.path \notin DOMAIN pathsToUrls
Location(rsp) == {h[2] : h \in {x \in rsp.headers : x[1] = "Location"}}
TextTask == task \in {"yaml", "json"}
Returned == err # "unset"
Parse(doc) == IF task = "yaml" THEN ParseYaml(doc) ELSE ParseJson(doc)

\* C1 (as claimed): every request to the DbHandler handler is resolved against
\* the collection as it is when the request arrives.
C1_FreshPerRequest ==
    [][\A r \in Requests :
          (task = "db" /\ storeUp /\ ServeHTTP(r))
              => resp' = MapHandlerServe(RedirectsToMap(store), handler.fallback, r)]_vars

\* a target http.Redirect sends as it is: it has a scheme or host, or it is a
\* rooted path with no empty, "." or ".." element (one trailing slash allowed)
IsCanonical(url) ==
    \/ HasHost(url)
    \/ /\ Len(url) > 0 /\ url[1] = "/"
       /\ LET segs == Segments(url)
              n == Len(segs)
          IN  /\ \A i \in 2..(n - 1) : segs[i] \notin {<<>>, Dot, DotDot}
              /\ segs[n] \notin {Dot, DotDot}

\* C2 (as claimed): on a hit the response is 302 with Location equal to the
\* table's destination D, and the fallback is not invoked.
C2_LocationIsDestination ==
    Hit => /\ resp.status = 302
           /\ Location(resp) = {pathsToUrls[req.path]}
           /\ resp.fallbackReqs = <<>>

\* C2 (amended): on a hit the response is 302, the fallback is not invoked,
\* and Location equals D whenever D has a scheme or host or is a rooted path
\* in cleaned form; any other D is sent as a single rooted, cleaned Location
\* when the request path is rooted.
C2_RedirectOnHit ==
    Hit => /\ resp.status = 302
           /\ resp.fallbackReqs = <<>>
           /\ Cardinality(Location(resp)) = 1
           /\ IsCanonical(pathsToUrls[req.path]) => Location(resp) = {pathsToUrls[req.path]}
           /\ (Len(req.path) > 0 /\ req.path[1] = "/") => \A l \in Location(resp) : IsCanonical(l)

C2_Witness ==
    /\ task = "map" /\ Hit
    /\ pathsToUrls[req.path] = <<"/", "a">>
    /\ Location(resp) = {<<"/", "a">>}

\* C3: on a miss the fallback is invoked exactly once with the request as it
\* came in, and the response is exactly the one the fallback alone produces.
C3_FallbackOnMiss ==
    Miss => /\ resp.fallbackReqs = <<req>>
            /\ [resp EXCEPT !.fallbackReqs = <<>>] = FallbackServe(handler.fallback, req)

C3_Witness ==
    /\ Miss /\ handler.fallback = "testMux" /\ pathsToUrls # EmptyMap
    /\ req.path = FallbackPath /\ resp.status = 200 /\ resp.body = <<"Hello, world">>

\* C4 (as claimed): a request that arrives while the store cannot be queried
\* ends as a failed request, answered neither by the fallback nor by a
\* redirect from records fetched earlier.
C4_FailedQueryFailsRequest ==
    [][\A r \in Requests :
          (task = "db" /\ ~storeUp /\ ServeHTTP(r))
              => (resp'.status >= 500 /\ resp'.fallbackReqs = <<>>)]_vars

\* C5: YamlHandler and JsonHandler return either the decoder's error and a
\* nil handler, which serves nothing, or no error and a handler that answers
\* every request as MapHandler over RedirectsToMap of the decoded records.
C5_AllOrNothing ==
    (TextTask /\ Returned) =>
        LET d == Parse(raw)
        IN  /\ d.err # NoError => (err = d.err /\ handler = NilHandler /\ ~Served)
            /\ d.err = NoError =>
                  /\ err = NoError /\ ~handler.nil
                  /\ pathsToUrls = RedirectsToMap(d.recs)
                  /\ Served => resp = MapHandlerServe(RedirectsToMap(d.recs), handler.fallback, req)

\* a decode that failed after part of the list was filled in
C5_Witness ==
    /\ TextTask /\ Returned
    /\ Parse(raw).err # NoError /\ Len(Parse(raw).recs) > 0
    /\ handler = NilHandler /\ err = Parse(raw).err

\* C6: the table's keys are exactly the paths of the records, and each key
\* maps to the URL of the last record carrying it.
C6_LastWriteWins ==
    (TextTask /\ Returned /\ ~handler.nil) =>
        LET L == Parse(raw).recs
        IN  /\ DOMAIN pathsToUrls = {L[i].Path : i \in 1..Len(L)}
            /\ \A i \in 1..Len(L) :
                  (\A j \in (i + 1)..Len(L) : L[j].Path # L[i].Path)
                      => pathsToUrls[L[i].Path] = L[i].URL

C6_Witness ==
    /\ TextTask /\ ~handler.nil
    /\ LET L == Parse(raw).recs
       IN  /\ Len(L) = 2 /\ L[1].Path = L[2].Path /\ L[1].URL # L[2].URL
           /\ pathsToUrls[L[1].Path] = L[2].URL

\* C7 (as claimed): appending a copy of any record already in the list leaves
\* the table unchanged.
C7_AppendAnyDuplicate ==
    (TextTask /\ Returned /\ ~handler.nil) =>
        LET L == Parse(raw).recs
        IN  \A i \in 1..Len(L) : RedirectsToMap(Append(L, L[i])) = pathsToUrls

\* C7 (amended): appending a copy of a record leaves the table unchanged when
\* no later record of the list carries the same path with a different URL.
C7_AppendCurrentDuplicate ==
    (TextTask /\ Returned /\ ~handler.nil) =>
        LET L == Parse(raw).recs
        IN  \A i \in 1..Len(L) :
               (\A j \in (i + 1)..Len(L) : L[j].Path = L[i].Path => L[j].URL = L[i].URL)
                   => RedirectsToMap(Append(L, L[i])) = pathsToUrls

\* a list of two different paths: either record appended again changes nothing
C7_Witness ==
    /\ TextTask /\ ~handler.nil
    /\ LET L == Parse(raw).recs
       IN  /\ Len(L) = 2 /\ L[1].Path # L[2].Path
           /\ RedirectsToMap(Append(L, L[1])) = pathsToUrls
           /\ DOMAIN pathsToUrls = {L[1].Path, L[2].Path}

\* the text follows the schema: a top-level list whose items are mappings
\* with exactly the keys path and url, both strings
Conforms(doc) ==
    /\ doc.syntax /\ doc.top = "seq"
    /\ \A i \in 1..Len(doc.items) :
          LET it == doc.items[i]
          IN  /\ it.node = "map" /\ Len(it.fields) = 2
              /\ {it.fields[1].key, it.fields[2].key} = {"path", "url"}
              /\ it.fields[1].type = "str" /\ it.fields[2].type = "str"

ValueOf(it, k) == (CHOOSE f \in {it.fields[n] : n \in 1..Len(it.fields)} : f.key = k).val

\* the record list a conforming text encodes
Encoded(doc) == [i \in 1..Len(doc.items) |->
                    Redirect(ValueOf(doc.items[i], "path"), ValueOf(doc.items[i], "url"))]

\* C8: for a text that follows the schema, the YAML decoder and the JSON
\* decoder both yield the encoded record list in order, the tables are equal,
\* and the handler of either format answers every request alike.
C8_DecodersInterchangeable ==
    (TextTask /\ Returned /\ Conforms(raw)) =>
        /\ ParseYaml(raw) = Decoded(NoError, Encoded(raw))
        /\ ParseJson(raw) = Decoded(NoError, Encoded(raw))
        /\ err = NoError /\ ~handler.nil
        /\ pathsToUrls = RedirectsToMap(Encoded(raw))
        /\ Served => resp = MapHandlerServe(RedirectsToMap(Encoded(raw)), handler.fallback, req)

C8_Witness ==
    /\ task = "yaml" /\ Conforms(raw) /\ Len(raw.items) = 2
    /\ Encoded(raw)[1] # Encoded(raw)[2]
    /\ Hit /\ resp.status = 302

C10_ExactMatch ==
    Served =>
        /\ resp.status \in {200, 301, 302, 404}
        /\ (resp.fallbackReqs = <<>> /\ resp.status = 302)
              <=> (\E k \in DOMAIN pathsToUrls :
                      Len(k) = Len(req.path) /\ \A i \in 1..Len(k) : k[i] = req.path[i])
        /\ (resp.fallbackReqs = <<req>>)
              <=> ~(\E k \in DOMAIN pathsToUrls :
                      Len(k) = Len(req.path) /\ \A i \in 1..Len(k) : k[i] = req.path[i])

\* a request for a proper prefix of the only key goes to the fallback
C10_Witness ==
    /\ Served /\ resp.fallbackReqs = <<req>>
    /\ \E k \in DOMAIN pathsToUrls :
          /\ Len(req.path) > 0 /\ Len(req.path) < Len(k)
          /\ SubSeq(k, 1, Len(req.path)) = req.path

\* C11: one call of DbHandler issues exactly one Find and no second one; a
\* failed query or a failed cursor gives that error and a nil handler, a
\* successful one gives a handler over the fetched records and a nil error;
\* no later step queries the store.
C11_OneQueryNoRetry ==
    [][task = "db" =>
          /\ (~Returned /\ err' # "unset") =>
                /\ queries' = queries + 1
                /\ \E allOk \in BOOLEAN :
                      LET d == Find(store, storeUp, allOk)
                      IN  /\ err' = d.err
                          /\ d.err # NoError => handler' = NilHandler
                          /\ d.err = NoError =>
                                (~handler'.nil /\ pathsToUrls' = RedirectsToMap(d.recs))
          /\ Returned => queries' = queries]_vars

\* the cursor failed: one query was issued, its error came back with no handler
C11_Witness ==
    /\ task = "db" /\ queries = 1
    /\ err = "store: cursor failed" /\ handler = NilHandler

\* C12: in Task1's chain (YAML handler, then the map handler, then the mux)
\* a request is answered by the outer table when it holds the path, also when
\* the inner table holds it too; by the inner table when only that one holds
\* it; and by the mux only when neither does.  The response is exactly that
\* one element's.
C12_ChainShadowing ==
    (task = "chain" /\ Served) =>
        LET p == req.path
        IN  /\ p \in DOMAIN pathsToUrls =>
                  resp = HttpRedirect(req, pathsToUrls[p], 302)
            /\ (p \notin DOMAIN pathsToUrls /\ p \in DOMAIN callerMap) =>
                  resp = [HttpRedirect(req, callerMap[p], 302) EXCEPT !.fallbackReqs = <<req>>]
            /\ (p \notin DOMAIN pathsToUrls /\ p \notin DOMAIN callerMap) =>
                  resp = [FallbackServe("defaultMux", req) EXCEPT !.fallbackReqs = <<req>>]

\* both tables hold the path, with different destinations: the outer one answers
C12_Witness ==
    /\ task = "chain" /\ Served
    /\ req.path \in (DOMAIN pathsToUrls) \cap (DOMAIN callerMap)
    /\ pathsToUrls[req.path] # callerMap[req.path]
    /\ Location(resp) = {RedirectLocation(req.path, pathsToUrls[req.path])}
    /\ Location(resp) # {RedirectLocation(req.path, callerMap[req.path])}

\* C13: the handler built by MapHandler reads the caller's own map: serving a
\* request never writes it, a write by the caller is seen by the closure, and
\* every request is resolved against the map as the caller has left it.
C13_MapByReference ==
    [][task = "map" =>
          /\ (req = NoRequest /\ req' # NoRequest) =>
                /\ callerMap' = callerMap
                /\ resp' = MapHandlerServe(callerMap, handler.fallback, req')
          /\ callerMap' # callerMap => (Returned => pathsToUrls' = callerMap')]_vars

\* a request for a key the caller added after MapHandler had returned
C13_Witness ==
    /\ task = "map" /\ Hit
    /\ callerMap = Put(Put(EmptyMap, <<"/">>, <<".">>), <<"/", "a">>, <<"/", "a">>)
    /\ req.path = <<"/", "a">> /\ resp.status = 302
====
